---- MODULE Spec2Model ----
(***************************************************************************)
(* Model of the MoSSo benchmark orchestration scripts:                     *)
(*   - the dataset normalizer (scripts/utils.py),                          *)
(*   - the process execution harness and the multi-run loop                *)
(*     (scripts/run_mosso.py),                                             *)
(*   - the parameter sweep controller (scripts/parameter_sweep.py).        *)
(* SpecNorm drives the normalizer, SpecHarness the harness, SpecExtract    *)
(* the metrics extractor on its own, SpecSweep the sweep controller, and   *)
(* SpecPipeline the sweep with children that may hang and an operator who  *)
(* may interrupt it.                                                       *)
(***************************************************************************)
EXTENDS Integers, Sequences, FiniteSets, TLC

VARIABLES
    \* ---- dataset normalizer (scripts/utils.py) ----
    source,        \* lines of the input (remote archive content / local file)
    gz_path,       \* file datasets/<filename>.gz : [exists, content]
    txt_path,      \* file datasets/<filename>    : [exists, content]
    prepared_path, \* file datasets/prepared_<filename> : [exists, content]
    n_fn,          \* the entry point this behaviour calls
    n_pc,          \* position of the call in progress
    n_pos,         \* index of the next source line the for-loop reads
    seen_edges,    \* the set seen_edges
    n_before,      \* target file as it was when the call started
    n_read,        \* the call has opened the source
    n_wrote,       \* the call has opened the target for writing
    n_fault,       \* the environment injected an I/O fault into the call
    n_hist,        \* completed calls, oldest first
    \* ---- harness and multi-run loop (scripts/run_mosso.py) ----
    runs,              \* the repeat count of run_multiple_mosso
    discard_summaries, \* the discard flag handed down to run_mosso
    iter,              \* loop variable i of run_multiple_mosso (completed iterations)
    h_pc,              \* position of the (single) parent thread
    child,             \* child process of each invocation: [st, rc]
    pipe,              \* lines the attached child has written and nobody read yet
    emitted,           \* every line the attached child has written, in order
    log_file,          \* file <RUNS_DIR>/<output_name>.log of the invocation
    output_lines,      \* the list output_lines
    output,            \* the text handed to the two re.search calls
    artifact,          \* invocations with a file at output/<output_name>
    summarized,        \* invocations with a file at SUMMARIZED_DIR/<output_name>
    deposited,         \* invocations whose child has written its artifact
    h_ret,             \* the pair run_mosso returned: <<t, r>>
    h_outcome,         \* the path on which run_mosso returned
    times,             \* the list times
    ratios,            \* the list ratios
    averages,          \* <<t_avg, r_avg>> once run_multiple_mosso returned
    invoked,           \* the run suffix of every run_mosso call so far, in order
    rets,              \* the pair every finished run_mosso call returned, in order
    \* ---- sweep controller (scripts/parameter_sweep.py) ----
    param,             \* args.param
    datasets_to_run,   \* the list datasets_to_run of (url, filename)
    s_runs,            \* args.runs
    val_i,             \* position of the outer loop in config["values"]
    ds_i,              \* position of the inner loop in datasets_to_run
    s_pc,              \* position of run_sweep
    path,              \* the local path of the dataset in hand
    agg1,              \* <<t1, r1>> of the baseline
    agg2,              \* <<t2, r2>> of the variant
    calls,             \* every run_multiple_mosso call so far, with its arguments
    invocations,       \* every run_mosso call so far, with the command it built
    prepares,          \* every dataset preparation call so far, in order
    all_results,       \* the list all_results
    master_csv         \* file SWEEP_DIR/sweep_<param>_results.csv

normVars == <<source, gz_path, txt_path, prepared_path, n_fn, n_pc, n_pos,
              seen_edges, n_before, n_read, n_wrote, n_fault, n_hist>>

harnVars == <<runs, discard_summaries, iter, h_pc, child, pipe, emitted, log_file,
              output_lines, output, artifact, summarized, deposited, h_ret,
              h_outcome, times, ratios, averages, invoked, rets>>

sweepVars == <<param, datasets_to_run, s_runs, val_i, ds_i, s_pc, path, agg1, agg2,
               calls, invocations, prepares, all_results, master_csv>>

vars == <<normVars, harnVars, sweepVars>>

\* ------------------------------------------------------------------ bounds
MaxLines == 3   \* longest input, in lines
MaxCalls == 2   \* normalizer calls in one behaviour
MaxRuns == 2    \* largest repeat count
MaxOut == 2     \* most lines one child writes
PipeCap == 1    \* lines the pipe holds before the child blocks
MaxText == 4    \* longest captured text handed to the extractor alone, in lines
MaxValues == 2  \* sweep values taken from the head of a configured value list

\* ------------------------------------------------------------------ text
DigitChars == <<"0", "1", "2", "3", "4", "5", "6", "7", "8", "9">>

DigitSet == {DigitChars[d] : d \in 1..10}

DigitTable == [c \in DigitSet |-> (CHOOSE d \in 1..10 : DigitChars[d] = c) - 1]

IsDigit(c) == c \in DigitSet

DigitVal(c) == DigitTable[c]

RECURSIVE DigitsVal(_)
DigitsVal(s) ==
    IF s = <<>> THEN 0
    ELSE 10 * DigitsVal(SubSeq(s, 1, Len(s) - 1)) + DigitVal(s[Len(s)])

\* int(token): optional sign, then one or more decimal digits; anything else
\* raises ValueError (ok = FALSE).
ParseInt(tok) ==
    LET signed == Len(tok) > 0 /\ tok[1] \in {"+", "-"}
        body   == IF signed THEN SubSeq(tok, 2, Len(tok)) ELSE tok
        ok     == Len(body) > 0 /\ \A k \in 1..Len(body) : IsDigit(body[k])
    IN  [ok  |-> ok,
         val |-> IF ~ok THEN 0
                 ELSE IF signed /\ tok[1] = "-" THEN 0 - DigitsVal(body)
                 ELSE DigitsVal(body)]

RECURSIVE NatToStr(_)
NatToStr(n) ==
    IF n < 10 THEN <<DigitChars[n + 1]>>
    ELSE NatToStr(n \div 10) \o <<DigitChars[(n % 10) + 1]>>

\* f"{u}": the canonical decimal text of an int
IntToStr(n) == IF n < 0 THEN <<"-">> \o NatToStr(0 - n) ELSE NatToStr(n)

\* A source line is [lead, parts]: lead says the raw line begins with white
\* space, parts is line.strip().split().
Tok1   == <<"1">>
Tok2   == <<"2">>
Tok3   == <<"3">>
Tok01  == <<"0", "1">>
TokX   == <<"x">>
TokHash == <<"#">>

Line(lead, parts) == [lead |-> lead, parts |-> parts]

LineSet ==
    { Line(FALSE, <<Tok1, Tok2>>),           \* "1 2"
      Line(FALSE, <<Tok2, Tok01>>),          \* "2 01" the same edge, reversed
      Line(FALSE, <<Tok1, Tok1>>),           \* "1 1"   self-loop
      Line(FALSE, <<Tok1, Tok3, TokX>>),     \* "1 3 x" trailing field
      Line(FALSE, <<Tok1>>),                 \* "1"     one token
      Line(FALSE, <<TokX, Tok2>>),           \* "x 2"   not an integer
      Line(FALSE, <<TokHash, Tok1, Tok2>>) } \* "# 1 2" comment

Sources == UNION { [1..n -> LineSet] : n \in 0..MaxLines }

\* line.startswith('#')
StartsWithHash(line) ==
    /\ ~line.lead
    /\ Len(line.parts) > 0
    /\ Len(line.parts[1]) > 0
    /\ line.parts[1][1] = "#"

\* ------------------------------------------------------------------ files
NoFile == [exists |-> FALSE, content |-> <<>>]

File(content) == [exists |-> TRUE, content |-> content]

\* open(path, 'a') : what a slip of the open mode would do
OpenAppend(f) == File(f.content)

\* open(path, 'w') : creates or truncates
OpenWrite(f) == File(<<>>)

\* f_out.write(...)
Append_(f, line) == File(Append(f.content, line))

\* tuple(sorted((u, v))) without the sort
EdgeUnsorted(u, v) == <<u, v>>

\* tuple(sorted((u, v)))
Edge(u, v) == IF u <= v THEN <<u, v>> ELSE <<v, u>>

\* the write with the sorted pair instead of the original ids
OutLineSorted(u, v) ==
    IF u <= v THEN <<IntToStr(u), IntToStr(v), <<"1">>>>
    ELSE <<IntToStr(v), IntToStr(u), <<"1">>>>

\* f"{u}\t{v}\t1\n", as its three tab-separated fields
OutLine(u, v) == <<IntToStr(u), IntToStr(v), <<"1">>>>

\* One pass of the for-loop body over `line`: what it adds to seen_edges and
\* what it writes ([seen, out] with out a sequence of 0 or 1 output lines).
ProcessLine(line, seen) ==
    LET skip == [seen |-> seen, out |-> <<>>] IN
    IF StartsWithHash(line) THEN skip
    ELSE IF Len(line.parts) < 2 THEN skip
    ELSE LET pu == ParseInt(line.parts[1])
             pv == ParseInt(line.parts[2])
         IN  IF ~pu.ok \/ ~pv.ok THEN skip               \* except ValueError
             ELSE IF pu.val = pv.val THEN skip           \* self-loop
             ELSE LET edge == Edge(pu.val, pv.val) IN
                  IF edge \in seen THEN skip
                  ELSE [seen |-> seen \cup {edge},
                        out  |-> <<OutLine(pu.val, pv.val)>>]

\* benchmark/benchmark.py 133: f"{parts[0]}\t{parts[1]}\t1\n", the two tokens
\* as they stand in the source
RawOutLine(line) == <<line.parts[1], line.parts[2], <<"1">>>>

\* benchmark/benchmark.py 129-133: one pass of the for-loop body of the other
\* download_and_prepare_dataset: the sequence of 0 or 1 lines it writes
BenchmarkProcessLine(line) ==
    IF StartsWithHash(line) THEN <<>>
    ELSE IF Len(line.parts) < 2 THEN <<>>
    ELSE <<RawOutLine(line)>>

\* benchmark/benchmark.py 128-133: the file that loop writes for a source
RECURSIVE BenchmarkOutput(_)
BenchmarkOutput(src) ==
    IF src = <<>> THEN <<>>
    ELSE BenchmarkOutput(SubSeq(src, 1, Len(src) - 1))
         \o BenchmarkProcessLine(src[Len(src)])

\* ------------------------------------------------------------ normalizer
Target(fn) == IF fn = "download_and_prepare_dataset" THEN txt_path ELSE prepared_path

TargetName(fn) ==
    IF fn = "download_and_prepare_dataset" THEN "txt_path" ELSE "prepared_path"

\* The call ends: record it. result is "returned" or "raised".
Finish(result, ret, target) ==
    /\ n_hist' = Append(n_hist, [fn     |-> n_fn,
                                 result |-> result,
                                 ret    |-> ret,
                                 before |-> n_before,
                                 after  |-> target,
                                 read   |-> n_read,
                                 wrote  |-> n_wrote,
                                 fault  |-> n_fault])
    /\ n_pc' = "idle"

NormInit ==
    /\ source \in Sources
    /\ gz_path = NoFile
    /\ txt_path = NoFile
    /\ prepared_path = NoFile
    /\ n_fn \in {"download_and_prepare_dataset", "prepare_local_dataset"}
    /\ n_pc = "idle"
    /\ n_pos = 0
    /\ seen_edges = {}
    /\ n_before = NoFile
    /\ n_read = FALSE
    /\ n_wrote = FALSE
    /\ n_fault = FALSE
    /\ n_hist = <<>>

\* A caller enters the entry point (again): the two entry points share no
\* file, so a behaviour calls one of them, up to MaxCalls times.
Call(fn) ==
    /\ n_pc = "idle"
    /\ n_fn = fn
    /\ Len(n_hist) < MaxCalls
    /\ UNCHANGED n_fn
    /\ n_pc' = IF fn = "download_and_prepare_dataset" THEN "check" ELSE "open"
    /\ n_pos' = 0
    /\ seen_edges' = {}
    /\ n_before' = Target(fn)
    /\ n_read' = FALSE
    /\ n_wrote' = FALSE
    /\ n_fault' = FALSE
    /\ UNCHANGED <<sweepVars, harnVars, source, gz_path, txt_path, prepared_path, n_hist>>

\* the existence check left out
TxtExistsNever == FALSE

\* os.path.exists(txt_path) on entry
TxtExists == txt_path.exists

\* utils.py 98, 133: the output exists, return it untouched.
DownloadMemo ==
    /\ n_pc = "check"
    /\ TxtExists
    /\ Finish("returned", "txt_path", txt_path)
    /\ UNCHANGED <<sweepVars, harnVars, source, gz_path, txt_path, prepared_path, n_fn, n_pos,
                   seen_edges, n_before, n_read, n_wrote, n_fault>>

\* utils.py 99-101: fetch the archive unless it is already there.
DownloadFetch ==
    /\ n_pc = "check"
    /\ ~TxtExists
    /\ gz_path' = IF gz_path.exists THEN gz_path ELSE File(source)
    /\ n_pc' = "open"
    /\ UNCHANGED <<sweepVars, harnVars, source, txt_path, prepared_path, n_fn, n_pos, seen_edges,
                   n_before, n_read, n_wrote, n_fault, n_hist>>

\* utils.py 101: urlretrieve raises (source unreachable); nothing catches it.
DownloadFetchFails ==
    /\ n_pc = "check"
    /\ ~TxtExists
    /\ ~gz_path.exists
    /\ n_fault' = TRUE
    /\ n_hist' = Append(n_hist, [fn |-> n_fn, result |-> "raised", ret |-> "None",
                                 before |-> n_before, after |-> txt_path,
                                 read |-> n_read, wrote |-> n_wrote, fault |-> TRUE])
    /\ n_pc' = "idle"
    /\ UNCHANGED <<sweepVars, harnVars, source, gz_path, txt_path, prepared_path, n_fn, n_pos,
                   seen_edges, n_before, n_read, n_wrote>>

\* utils.py 107 / 143: the with statement opens the source, then the target
\* with mode 'w'.
OpenFiles ==
    /\ n_pc = "open"
    /\ n_read' = TRUE
    /\ n_wrote' = TRUE
    /\ IF n_fn = "download_and_prepare_dataset"
          THEN txt_path' = OpenWrite(txt_path) /\ UNCHANGED prepared_path
          ELSE prepared_path' = OpenWrite(prepared_path) /\ UNCHANGED txt_path
    /\ n_pos' = 1
    /\ seen_edges' = {}
    /\ n_pc' = "loop"
    /\ UNCHANGED <<sweepVars, harnVars, source, gz_path, n_fn, n_before, n_fault, n_hist>>

\* utils.py 107 / 143: the source cannot be opened; the exception leaves the
\* function (there is no handler), the target has not been opened yet.
OpenSourceFails ==
    /\ n_pc = "open"
    /\ n_fault' = TRUE
    /\ n_hist' = Append(n_hist, [fn |-> n_fn, result |-> "raised", ret |-> "None",
                                 before |-> n_before, after |-> Target(n_fn),
                                 read |-> n_read, wrote |-> n_wrote, fault |-> TRUE])
    /\ n_pc' = "idle"
    /\ UNCHANGED <<sweepVars, harnVars, source, gz_path, txt_path, prepared_path, n_fn, n_pos,
                   seen_edges, n_before, n_read, n_wrote>>

\* utils.py 108-129 / 144-162: one iteration of the for-loop.
LoopLine ==
    /\ n_pc = "loop"
    /\ n_pos <= Len(source)
    /\ LET r == ProcessLine(source[n_pos], seen_edges) IN
         /\ seen_edges' = r.seen
         /\ IF r.out = <<>>
               THEN UNCHANGED <<txt_path, prepared_path>>
               ELSE IF n_fn = "download_and_prepare_dataset"
                       THEN /\ txt_path' = Append_(txt_path, r.out[1])
                            /\ UNCHANGED prepared_path
                       ELSE /\ prepared_path' = Append_(prepared_path, r.out[1])
                            /\ UNCHANGED txt_path
    /\ n_pos' = n_pos + 1
    /\ UNCHANGED <<sweepVars, harnVars, source, gz_path, n_fn, n_pc, n_before, n_read, n_wrote,
                   n_fault, n_hist>>

\* utils.py 108 / 144: reading the next line raises (I/O error, corrupt
\* archive). The with statement closes both files and the exception leaves the
\* function: what was written so far stays on disk.
ReadFails ==
    /\ n_pc = "loop"
    /\ n_fault' = TRUE
    /\ n_hist' = Append(n_hist, [fn |-> n_fn, result |-> "raised", ret |-> "None",
                                 before |-> n_before, after |-> Target(n_fn),
                                 read |-> n_read, wrote |-> n_wrote, fault |-> TRUE])
    /\ n_pc' = "idle"
    /\ UNCHANGED <<sweepVars, harnVars, source, gz_path, txt_path, prepared_path, n_fn, n_pos,
                   seen_edges, n_before, n_read, n_wrote>>

\* utils.py 131-133 / 164-165: end of input; the download variant removes the
\* archive; return the target path.
LoopEnd ==
    /\ n_pc = "loop"
    /\ n_pos > Len(source)
    /\ gz_path' = IF n_fn = "download_and_prepare_dataset" THEN NoFile ELSE gz_path
    /\ Finish("returned", TargetName(n_fn), Target(n_fn))
    /\ UNCHANGED <<sweepVars, harnVars, source, txt_path, prepared_path, n_fn, n_pos, seen_edges,
                   n_before, n_read, n_wrote, n_fault>>

download_and_prepare_dataset == Call("download_and_prepare_dataset")

prepare_local_dataset == Call("prepare_local_dataset")

NormNext ==
    \/ download_and_prepare_dataset
    \/ prepare_local_dataset
    \/ DownloadMemo
    \/ DownloadFetch
    \/ DownloadFetchFails
    \/ OpenFiles
    \/ OpenSourceFails
    \/ LoopLine
    \/ ReadFails
    \/ LoopEnd


\* ------------------------------------------------------- child output text
\* A line of child output is [label, num, unit]: the text "<label>: <num><unit>".
OutText(label, num, unit) == [label |-> label, num |-> num, unit |-> unit]

TimeLine    == OutText("Execution time", <<"1", ".", "5">>, "s")
RatioLine   == OutText("Expected Compression Ratio", <<"0", ".", "5">>, "")
NoiseLine   == OutText("Elapsed time", <<"2">>, "")
BadTimeLine == OutText("Execution time", <<"1", ".", "2", ".", "3">>, "s")

ChildLines == {TimeLine, RatioLine, NoiseLine, BadTimeLine}

\* further lines a child may write, for the extractor taken alone
TimeLine2      == OutText("Execution time", <<"2">>, "s")
RatioLineLower == OutText("Expected compression ratio", <<"0", ".", "2", "5">>, "")
LowerTimeLine  == OutText("execution time", <<"1", ".", "0">>, "s")
BadRatioLine   == OutText("Expected Compression Ratio", <<"1", ".", "2", ".", "3">>, "")

ExtractLines ==
    ChildLines \cup {TimeLine2, RatioLineLower, LowerTimeLine, BadRatioLine}

Texts == UNION { [1..n -> ExtractLines] : n \in 0..MaxText }

\* str.lower() on the labels the child writes
Lower(label) ==
    CASE label = "Expected Compression Ratio" -> "expected compression ratio"
      [] label = "Expected compression ratio" -> "expected compression ratio"
      [] label = "EXPECTED COMPRESSION RATIO" -> "expected compression ratio"
      [] label = "Execution time"             -> "execution time"
      [] label = "Elapsed time"               -> "elapsed time"
      [] OTHER                                -> label

\* [\d.]+ : a non-empty run of digits and dots
IsNumRun(num) ==
    /\ Len(num) > 0
    /\ \A k \in 1..Len(num) : IsDigit(num[k]) \/ num[k] = "."

\* r"Execution time:\s*([\d.]+)s" matches inside this line
TimeMatches(line) ==
    /\ line.label = "Execution time"
    /\ IsNumRun(line.num)
    /\ line.unit = "s"

\* the ratio pattern without re.IGNORECASE
RatioMatchesExactCase(line) ==
    /\ line.label = "Expected Compression Ratio"
    /\ IsNumRun(line.num)

\* r"Expected Compression Ratio:\s*([\d.]+)" with re.IGNORECASE
RatioMatches(line) ==
    /\ Lower(line.label) = Lower("Expected Compression Ratio")
    /\ IsNumRun(line.num)

None == [some |-> FALSE, val |-> 0]

Some(v) == [some |-> TRUE, val |-> v]

NoneNone == <<None, None>>

RECURSIVE PadFraction(_)
\* the first three decimals, zero padded
PadFraction(f) ==
    IF Len(f) >= 3 THEN SubSeq(f, 1, 3) ELSE PadFraction(Append(f, "0"))

\* float(token) for a token of digits and dots: at most one dot and at least
\* one digit, else ValueError (ok = FALSE). The value is kept in thousandths.
ParseFloat(tok) ==
    LET dots == {k \in 1..Len(tok) : tok[k] = "."}
        ok   == /\ Cardinality(dots) <= 1
                /\ \E k \in 1..Len(tok) : IsDigit(tok[k])
        d    == IF dots = {} THEN Len(tok) + 1 ELSE CHOOSE k \in dots : TRUE
    IN  [ok  |-> ok,
         val |-> IF ~ok THEN 0
                 ELSE 1000 * DigitsVal(SubSeq(tok, 1, d - 1))
                      + DigitsVal(PadFraction(SubSeq(tok, d + 1, Len(tok))))]

\* the last match instead of the first (re.findall(...)[-1])
LastTimeMatch(text) ==
    IF \E k \in 1..Len(text) : TimeMatches(text[k])
    THEN CHOOSE k \in 1..Len(text) :
            TimeMatches(text[k]) /\ \A j \in (k + 1)..Len(text) : ~TimeMatches(text[j])
    ELSE 0

\* re.search of the time pattern: the first line it matches, 0 for no match
FirstTimeMatch(text) ==
    IF \E k \in 1..Len(text) : TimeMatches(text[k])
    THEN CHOOSE k \in 1..Len(text) :
            TimeMatches(text[k]) /\ \A j \in 1..(k - 1) : ~TimeMatches(text[j])
    ELSE 0

\* re.search of the ratio pattern: the first line it matches, 0 for no match
FirstRatioMatch(text) ==
    IF \E k \in 1..Len(text) : RatioMatches(text[k])
    THEN CHOOSE k \in 1..Len(text) :
            RatioMatches(text[k]) /\ \A j \in 1..(k - 1) : ~RatioMatches(text[j])
    ELSE 0

\* run_mosso 42-47: [exc, t, r]; exc says a float() call raised ValueError.
Extract(text) ==
    LET time_m  == FirstTimeMatch(text)
        ratio_m == FirstRatioMatch(text)
        tf == IF time_m = 0 THEN [ok |-> TRUE, val |-> 0]
              ELSE ParseFloat(text[time_m].num)
        rf == IF ratio_m = 0 THEN [ok |-> TRUE, val |-> 0]
              ELSE ParseFloat(text[ratio_m].num)
    IN  [exc |-> ~tf.ok \/ ~rf.ok,
         t   |-> IF time_m # 0 /\ tf.ok THEN Some(tf.val) ELSE None,
         r   |-> IF ratio_m # 0 /\ rf.ok THEN Some(rf.val) ELSE None]

\* ----------------------------------------------------------------- harness
ExitCodes == {0, 1}

NoChild == [st |-> "unborn", rc |-> 0]

\* f"{output_name}_run{i}": a shift of the suffix to the loop variable itself
RunSuffixZeroBased(k) == k

\* f"{output_name}_run{i+1}": the suffix of the output name for loop variable k
RunSuffix(k) == k + 1

\* the invocation in progress (or just returned): run iter+1 of the loop
cur == iter + 1

\* a handler that catches ValueError only
CatchesValueErrorOnly(exc) == exc = "ValueError"

\* "except Exception": OSError (spawn, open) and ValueError (float) are caught
Catches(exc) == exc \in {"OSError", "ValueError"}

\* output_lines.insert(0, line): a slip of the buffer order
BufferPrepend(buf, line) == <<line>> \o buf

\* output_lines.append(line)
BufferAppend(buf, line) == Append(buf, line)

\* a check that only sees negative return codes
ReturnCodeNegative(rc) == rc < 0

\* process.returncode != 0
ReturnCodeBad(rc) == rc # 0

RECURSIVE Sum(_)
Sum(s) == IF s = <<>> THEN 0 ELSE Head(s) + Sum(Tail(s))

\* sum(xs) / len(xs) without the guard: an empty list divides by len = 0
MeanUnguarded(xs) == [some |-> TRUE, num |-> Sum(xs), den |-> Len(xs)]

\* sum(xs) / len(xs) if xs else None, kept as the fraction sum/len
Mean(xs) ==
    IF xs = <<>> THEN [some |-> FALSE, num |-> 0, den |-> 1]
    ELSE [some |-> TRUE, num |-> Sum(xs), den |-> Len(xs)]

HarnInit ==
    /\ runs \in 0..MaxRuns
    /\ discard_summaries \in BOOLEAN
    /\ iter = 0
    /\ h_pc = "loop"
    /\ child = [n \in 1..MaxRuns |-> NoChild]
    /\ pipe = <<>>
    /\ emitted = <<>>
    /\ log_file = NoFile
    /\ output_lines = <<>>
    /\ output = <<>>
    /\ artifact = {}
    /\ summarized = {}
    /\ deposited = {}
    /\ h_ret = NoneNone
    /\ h_outcome = "none"
    /\ times = <<>>
    /\ ratios = <<>>
    /\ averages = <<Mean(<<>>), Mean(<<>>)>>
    /\ invoked = <<>>
    /\ rets = <<>>

\* run_multiple_mosso 55-57: the loop calls run_mosso for iteration iter+1.
StartRun ==
    /\ h_pc = "loop"
    /\ iter < runs
    /\ h_pc' = "popen"
    /\ pipe' = <<>>
    /\ emitted' = <<>>
    /\ log_file' = NoFile
    /\ output_lines' = <<>>
    /\ output' = <<>>
    /\ h_ret' = NoneNone
    /\ h_outcome' = "running"
    /\ invoked' = Append(invoked, RunSuffix(iter))
    /\ UNCHANGED <<sweepVars, normVars, rets, runs,
                   discard_summaries, iter, child, artifact,
                   summarized, deposited, times, ratios, averages>>

\* run_mosso 49-51: an exception of class exc reaches the except clause.
Handle(exc, outcome) ==
    /\ h_outcome' = outcome
    /\ IF Catches(exc)
          THEN h_pc' = "returned" /\ h_ret' = NoneNone
          ELSE h_pc' = "raised" /\ UNCHANGED h_ret

\* run_mosso 20-21: Popen starts the child, output_lines = [].
Popen ==
    /\ h_pc = "popen"
    /\ child' = [child EXCEPT ![cur] = [st |-> "running", rc |-> 0]]
    /\ output_lines' = <<>>
    /\ h_pc' = "openlog"
    /\ UNCHANGED <<sweepVars, normVars, invoked, rets, runs,
                   discard_summaries, iter, pipe, emitted, log_file,
                   output, artifact, summarized, deposited, h_ret, h_outcome,
                   times, ratios, averages>>

\* run_mosso 20: Popen raises OSError (no java, permission denied).
PopenFails ==
    /\ h_pc = "popen"
    /\ Handle("OSError", "spawn_failed")
    /\ UNCHANGED <<sweepVars, normVars, invoked, rets, runs,
                   discard_summaries, iter, child, pipe, emitted,
                   log_file, output_lines, output, artifact, summarized,
                   deposited, times, ratios, averages>>

\* run_mosso 23: open(log_file, 'w').
OpenLog ==
    /\ h_pc = "openlog"
    /\ log_file' = OpenWrite(log_file)
    /\ h_pc' = "stream"
    /\ UNCHANGED <<sweepVars, normVars, invoked, rets, runs,
                   discard_summaries, iter, child, pipe, emitted,
                   output_lines, output, artifact, summarized, deposited, h_ret,
                   h_outcome, times, ratios, averages>>

\* run_mosso 23: open raises OSError. The handler returns; nothing waits for
\* or kills the child, which keeps running with nobody reading its pipe.
OpenLogFails ==
    /\ h_pc = "openlog"
    /\ Handle("OSError", "log_open_failed")
    /\ pipe' = <<>>
    /\ UNCHANGED <<sweepVars, normVars, invoked, rets, runs,
                   discard_summaries, iter, child, emitted,
                   log_file, output_lines, output, artifact, summarized,
                   deposited, times, ratios, averages>>

\* run_mosso 24-26: one iteration of "for line in process.stdout".
ReadLine ==
    /\ h_pc = "stream"
    /\ pipe # <<>>
    /\ log_file' = Append_(log_file, Head(pipe))
    /\ output_lines' = BufferAppend(output_lines, Head(pipe))
    /\ pipe' = Tail(pipe)
    /\ UNCHANGED <<sweepVars, normVars, invoked, rets, runs,
                   discard_summaries, iter, h_pc, child, emitted,
                   output, artifact, summarized, deposited, h_ret, h_outcome,
                   times, ratios, averages>>

\* run_mosso 24, 27: end of stream (the child is gone and the pipe is empty);
\* the with statement closes the log.
EndOfStream ==
    /\ h_pc = "stream"
    /\ pipe = <<>>
    /\ child[cur].st = "exited"
    /\ h_pc' = "wait"
    /\ UNCHANGED <<sweepVars, normVars, invoked, rets, runs,
                   discard_summaries, iter, child, pipe, emitted,
                   log_file, output_lines, output, artifact, summarized,
                   deposited, h_ret, h_outcome, times, ratios, averages>>

\* run_mosso 28-32: process.wait() returns, the return code is not 0.
WaitNonZero ==
    /\ h_pc = "wait"
    /\ child[cur].st = "exited"
    /\ ReturnCodeBad(child[cur].rc)
    /\ h_pc' = "returned"
    /\ h_ret' = NoneNone
    /\ h_outcome' = "nonzero"
    /\ UNCHANGED <<sweepVars, normVars, invoked, rets, runs,
                   discard_summaries, iter, child, pipe, emitted,
                   log_file, output_lines, output, artifact, summarized,
                   deposited, times, ratios, averages>>

\* run_mosso 28-30: process.wait() returns, the return code is 0.
WaitZero ==
    /\ h_pc = "wait"
    /\ child[cur].st = "exited"
    /\ ~ReturnCodeBad(child[cur].rc)
    /\ h_pc' = "reconcile"
    /\ UNCHANGED <<sweepVars, normVars, invoked, rets, runs,
                   discard_summaries, iter, child, pipe, emitted,
                   log_file, output_lines, output, artifact, summarized,
                   deposited, h_ret, h_outcome, times, ratios, averages>>

\* shutil.copy in place of shutil.move: the original stays
CopyOrRemove(name) ==
    IF name \notin artifact THEN [artifact |-> artifact, summarized |-> summarized]
    ELSE IF discard_summaries
         THEN [artifact |-> artifact \ {name}, summarized |-> summarized]
         ELSE [artifact |-> artifact, summarized |-> summarized \cup {name}]

\* run_mosso 35-39: os.remove or shutil.move of output/<output_name>, if it
\* exists: the two directories afterwards.
MoveOrRemove(name) ==
    IF name \notin artifact THEN [artifact |-> artifact, summarized |-> summarized]
    ELSE IF discard_summaries
         THEN [artifact |-> artifact \ {name}, summarized |-> summarized]
         ELSE [artifact |-> artifact \ {name}, summarized |-> summarized \cup {name}]

\* run_mosso 34-39: remove or move the file at output/<output_name>.
Reconcile ==
    /\ h_pc = "reconcile"
    /\ artifact' = MoveOrRemove(cur).artifact
    /\ summarized' = MoveOrRemove(cur).summarized
    /\ h_pc' = "extract"
    /\ UNCHANGED <<sweepVars, normVars, invoked, rets, runs,
                   discard_summaries, iter, child, pipe, emitted,
                   log_file, output_lines, output, deposited, h_ret, h_outcome,
                   times, ratios, averages>>

\* run_mosso 41-51: join the buffer, search both patterns, convert, return;
\* a ValueError of float() goes to the except clause.
ExtractMetrics ==
    /\ h_pc = "extract"
    /\ output' = output_lines
    /\ LET m == Extract(output_lines) IN
         IF m.exc
            THEN Handle("ValueError", "float_failed")
            ELSE /\ h_ret' = <<m.t, m.r>>
                 /\ h_outcome' = "ok"
                 /\ h_pc' = "returned"
    /\ UNCHANGED <<sweepVars, normVars, invoked, rets, runs,
                   discard_summaries, iter, child, pipe, emitted,
                   log_file, output_lines, artifact, summarized, deposited,
                   times, ratios, averages>>

\* "t is not None or r is not None": a slip of the connective
EitherPresent(ret) == ret[1].some \/ ret[2].some

\* t is not None and r is not None
BothPresent(ret) == ret[1].some /\ ret[2].some

\* run_multiple_mosso 57-60: keep the pair when both metrics are there.
Collect ==
    /\ h_pc = "returned"
    /\ IF BothPresent(h_ret)
          THEN /\ times' = Append(times, h_ret[1].val)
               /\ ratios' = Append(ratios, h_ret[2].val)
          ELSE UNCHANGED <<times, ratios>>
    /\ rets' = Append(rets, h_ret)
    /\ iter' = iter + 1
    /\ h_pc' = "loop"
    /\ UNCHANGED <<sweepVars, normVars, invoked, runs,
                   discard_summaries, child, pipe, emitted,
                   log_file, output_lines, output, artifact, summarized,
                   deposited, h_ret, h_outcome, averages>>

\* run_multiple_mosso 62-64: the loop is over, return the means and the lists.
ReturnAverages ==
    /\ h_pc = "loop"
    /\ iter = runs
    /\ averages' = <<Mean(times), Mean(ratios)>>
    /\ h_pc' = "done"
    /\ UNCHANGED <<sweepVars, normVars, invoked, rets, runs,
                   discard_summaries, iter, child, pipe, emitted,
                   log_file, output_lines, output, artifact, summarized,
                   deposited, h_ret, h_outcome, times, ratios>>

\* The child of the invocation in progress writes a line to its stdout; it
\* blocks while the pipe is full.
ChildEmit ==
    /\ h_pc \in {"openlog", "stream"}
    /\ child[cur].st = "running"
    /\ Len(emitted) < MaxOut
    /\ Len(pipe) < PipeCap
    /\ \E line \in ChildLines :
          /\ pipe' = Append(pipe, line)
          /\ emitted' = Append(emitted, line)
    /\ UNCHANGED <<sweepVars, normVars, invoked, rets, runs,
                   discard_summaries, iter, h_pc, child, log_file,
                   output_lines, output, artifact, summarized, deposited, h_ret,
                   h_outcome, times, ratios, averages>>

\* A running child writes its artifact to output/<output_name>.
ChildDeposit ==
    /\ \E n \in 1..MaxRuns :
          /\ child[n].st = "running"
          /\ n \notin deposited
          /\ artifact' = artifact \cup {n}
          /\ deposited' = deposited \cup {n}
    /\ UNCHANGED <<sweepVars, normVars, invoked, rets, runs,
                   discard_summaries, iter, h_pc, child, pipe,
                   emitted, log_file, output_lines, output, summarized, h_ret,
                   h_outcome, times, ratios, averages>>

\* A running child exits (closing its stdout) with some status.
ChildExit ==
    /\ \E n \in 1..MaxRuns, rc \in ExitCodes :
          /\ child[n].st = "running"
          /\ child' = [child EXCEPT ![n] = [st |-> "exited", rc |-> rc]]
    /\ UNCHANGED <<sweepVars, normVars, invoked, rets, runs,
                   discard_summaries, iter, h_pc, pipe, emitted,
                   log_file, output_lines, output, artifact, summarized,
                   deposited, h_ret, h_outcome, times, ratios, averages>>

HarnNext ==
    \/ StartRun
    \/ Popen
    \/ PopenFails
    \/ OpenLog
    \/ OpenLogFails
    \/ ReadLine
    \/ EndOfStream
    \/ WaitNonZero
    \/ WaitZero
    \/ Reconcile
    \/ ExtractMetrics
    \/ Collect
    \/ ReturnAverages
    \/ ChildEmit
    \/ ChildDeposit
    \/ ChildExit

\* -------------------------------------------------------- sweep controller
JAR_ORIGINAL == "mosso-original.jar"

JAR_HYBRID == "mosso-hybrid.jar"

\* the parameter table of parameter_sweep.py
SWEEP_CONFIG ==
    [samples |-> [values |-> [k \in 1..23 |-> 10 * k], default |-> 120],
     escape  |-> [values |-> [k \in 1..4 |-> 2 * k - 1], default |-> 3],
     b       |-> [values |-> <<1, 3, 5, 7, 10>>, default |-> 5]]

\* config["values"], cut to its first MaxValues entries
Values(p) ==
    LET all == SWEEP_CONFIG[p].values
    IN  SubSeq(all, 1, IF Len(all) < MaxValues THEN Len(all) ELSE MaxValues)

\* the head of the configured list of remote datasets, as (url, filename)
DATASETS ==
    << [url      |-> "https://snap.stanford.edu/data/as-caida20071105.txt.gz",
        filename |-> "as-caida20071105.txt"],
       [url      |-> "https://snap.stanford.edu/data/email-Enron.txt.gz",
        filename |-> "Email-Enron.txt"] >>

\* args.file of a sweep over one local file
LocalFile == "graph.csv"

\* [("local", args.file)] if args.file else the configured datasets
DatasetLists == { << [url |-> "local", filename |-> LocalFile] >>, DATASETS }

\* filename.replace(".txt", "").replace(".csv", "")
DatasetName(filename) ==
    CASE filename = "as-caida20071105.txt" -> "as-caida20071105"
      [] filename = "Email-Enron.txt"      -> "Email-Enron"
      [] filename = "graph.csv"            -> "graph"
      [] OTHER                             -> filename

\* What preparing a dataset hands back: the path of the normalized file, or a
\* value that "not path" takes for a failure (here the empty path).
NoPath == <<>>

PrepareResults(filename) == { <<"datasets", filename>>, NoPath }

\* the loop variable of a loop over reversed(config["values"])
valFromEnd == Values(param)[Len(Values(param)) + 1 - val_i]

\* the loop variable val of the outer loop
val == Values(param)[val_i]

\* the (url, filename) the inner loop is at
dataset == datasets_to_run[ds_i]

dataset_name == DatasetName(dataset.filename)

\* "samples = val": the sweep value whatever param is
samplesAlwaysVal == val

\* parameter_sweep.py 88
samples == IF param = "samples" THEN val ELSE SWEEP_CONFIG["samples"].default

\* parameter_sweep.py 89
escape == IF param = "escape" THEN val ELSE SWEEP_CONFIG["escape"].default

\* parameter_sweep.py 90
b_cand == IF param = "b" THEN val ELSE SWEEP_CONFIG["b"].default

\* f"orig_{dataset_name}_{param}{val}" / f"hyb_...": the parts of the name
OutputName(prefix) ==
    [prefix |-> prefix, dataset |-> dataset_name, param |-> param, val |-> val]

\* f"{output_name}_run1" whatever the run
RunNameFirstRun(output_name, k) == [base |-> output_name, run |-> RunSuffix(0)]

\* f"{output_name}_run{i+1}"
RunName(output_name, k) == [base |-> output_name, run |-> RunSuffix(k)]

\* the text of an output name: f"orig_{dataset_name}_{param}{val}" or
\* f"hyb_...", then f"{output_name}_run{i+1}"
Token(name) ==
    name.base.prefix \o "_" \o name.base.dataset \o "_" \o name.base.param
    \o ToString(name.base.val) \o "_run" \o ToString(name.run)

\* run_mosso 10-11: os.path.join(RUNS_DIR, output_name) + ".log"
LogPath(output_name) == "output/benchmark/runs/" \o output_name \o ".log"

\* run_mosso 34: os.path.join("output", output_name)
ArtifactPath(output_name) == "output/" \o output_name

\* the command with samples and escape in the order of the signature
CmdSamplesFirst(jar_file, dataset_path, output_name, smp, esc, itv, b) ==
    <<"java", "-cp", jar_file, "mosso.Run", dataset_path, output_name, "mosso",
      IntToStr(smp), IntToStr(esc), IntToStr(itv)>>
    \o (IF b.some THEN <<IntToStr(b.val)>> ELSE <<>>)

\* run_mosso 13-15: the command line; the classpath is named by its jar
Cmd(jar_file, dataset_path, output_name, smp, esc, itv, b) ==
    <<"java", "-cp", jar_file, "mosso.Run", dataset_path, output_name, "mosso",
      IntToStr(esc), IntToStr(smp), IntToStr(itv)>>
    \o (IF b.some THEN <<IntToStr(b.val)>> ELSE <<>>)

\* What one run_multiple_mosso call can hand back as <<t_avg, r_avg>>: both
\* absent, or both present (in thousandths); with no runs both are absent.
\* The baseline may report a mean time of 0.
AggResults(jar_file, n) ==
    IF n = 0 THEN {NoneNone}
    ELSE IF jar_file = JAR_ORIGINAL
         THEN {NoneNone, <<Some(1500), Some(500)>>, <<Some(2000), Some(500)>>,
               <<Some(0), Some(500)>>}
         ELSE {NoneNone, <<Some(1000), Some(250)>>}

\* One run_multiple_mosso call made by run_sweep, and the run_mosso calls it
\* makes (run_multiple_mosso 55-57) with their commands.
CallEntry(jar_file, output_name, smp, esc, itv, b) ==
    [jar_file |-> jar_file, dataset_path |-> path, output_name |-> output_name,
     samples |-> smp, escape |-> esc, interval |-> itv, runs |-> s_runs,
     discard_summaries |-> TRUE, b_candidates |-> b]

\* the run_mosso calls of a loop over range(runs + 1)
RunEntriesOneMore(jar_file, output_name, smp, esc, itv, b) ==
    [k \in 1..(s_runs + 1) |->
        [jar_file |-> jar_file, dataset_path |-> path,
         output_name |-> RunName(output_name, k - 1),
         samples |-> smp, escape |-> esc, interval |-> itv, b_candidates |-> b,
         cmd |-> Cmd(jar_file, path, RunName(output_name, k - 1), smp, esc, itv, b)]]

RunEntries(jar_file, output_name, smp, esc, itv, b) ==
    [k \in 1..s_runs |->
        [jar_file |-> jar_file, dataset_path |-> path,
         output_name |-> RunName(output_name, k - 1),
         samples |-> smp, escape |-> esc, interval |-> itv, b_candidates |-> b,
         cmd |-> Cmd(jar_file, path, RunName(output_name, k - 1), smp, esc, itv, b)]]

SweepInit ==
    /\ param \in DOMAIN SWEEP_CONFIG
    /\ datasets_to_run \in DatasetLists
    /\ s_runs \in {0, MaxRuns}
    /\ val_i = 1
    /\ ds_i = 1
    /\ s_pc = "values"
    /\ path = NoPath
    /\ agg1 = NoneNone
    /\ agg2 = NoneNone
    /\ calls = <<>>
    /\ invocations = <<>>
    /\ prepares = <<>>
    /\ all_results = <<>>
    /\ master_csv = NoFile

\* One call of prepare_dataset / download_and_prepare_dataset (95-98): the
\* dataset and sweep value it is made for, and how many run_mosso calls the
\* sweep had made by then.
\* the call as it would be noted were the value always the first of the list
PrepareCallFirstValue ==
    [url |-> dataset.url, dataset |-> dataset_name, val |-> Values(param)[1],
     before |-> Len(invocations)]

PrepareCall ==
    [url |-> dataset.url, dataset |-> dataset_name, val |-> val,
     before |-> Len(invocations)]

\* run_sweep 82-90: the outer loop takes the next value.
NextValue ==
    /\ s_pc = "values"
    /\ val_i <= Len(Values(param))
    /\ ds_i' = 1
    /\ s_pc' = "datasets"
    /\ UNCHANGED <<normVars, harnVars, param, datasets_to_run, s_runs, val_i, path,
                   agg1, agg2, calls, invocations, prepares, all_results, master_csv>>

\* run_sweep 92-105: the inner loop takes the next dataset and prepares it.
PrepareOk ==
    /\ s_pc = "datasets"
    /\ ds_i <= Len(datasets_to_run)
    /\ \E p \in PrepareResults(dataset.filename) :
          /\ p # NoPath
          /\ path' = p
    /\ prepares' = Append(prepares, PrepareCall)
    /\ s_pc' = "orig"
    /\ UNCHANGED <<normVars, harnVars, param, datasets_to_run, s_runs, val_i, ds_i,
                   agg1, agg2, calls, invocations, all_results, master_csv>>

\* run_sweep 92-103: preparation hands back no path; "continue".
PrepareFails ==
    /\ s_pc = "datasets"
    /\ ds_i <= Len(datasets_to_run)
    /\ \E p \in PrepareResults(dataset.filename) :
          /\ p = NoPath
          /\ path' = p
    /\ prepares' = Append(prepares, PrepareCall)
    /\ ds_i' = ds_i + 1
    /\ UNCHANGED <<normVars, harnVars, param, datasets_to_run, s_runs, val_i, s_pc,
                   agg1, agg2, calls, invocations, all_results, master_csv>>

\* run_sweep 95-98: the normalizer of utils.py has no handler around its
\* download and its "with" statement, so a source that cannot be fetched,
\* opened or read to its end raises out of the preparation call; run_sweep
\* has no handler either.
PrepareRaises ==
    /\ s_pc = "datasets"
    /\ ds_i <= Len(datasets_to_run)
    /\ prepares' = Append(prepares, PrepareCall)
    /\ s_pc' = "raised"
    /\ UNCHANGED <<normVars, harnVars, param, datasets_to_run, s_runs, val_i, ds_i,
                   path, agg1, agg2, calls, invocations, all_results, master_csv>>

\* run_sweep 108: the baseline, always at 120, 3, 1000 and no candidate count.
RunOriginal ==
    /\ s_pc = "orig"
    /\ agg1' \in AggResults(JAR_ORIGINAL, s_runs)
    /\ calls' = Append(calls, CallEntry(JAR_ORIGINAL, OutputName("orig"),
                                        120, 3, 1000, None))
    /\ invocations' = invocations
                      \o RunEntries(JAR_ORIGINAL, OutputName("orig"), 120, 3, 1000, None)
    /\ s_pc' = "hyb"
    /\ UNCHANGED <<normVars, harnVars, param, datasets_to_run, s_runs, val_i, ds_i,
                   path, agg2, prepares, all_results, master_csv>>

\* run_sweep 111: the variant at the swept configuration.
RunHybrid ==
    /\ s_pc = "hyb"
    /\ agg2' \in AggResults(JAR_HYBRID, s_runs)
    /\ calls' = Append(calls, CallEntry(JAR_HYBRID, OutputName("hyb"),
                                        samples, escape, 1000, Some(b_cand)))
    /\ invocations' = invocations
                      \o RunEntries(JAR_HYBRID, OutputName("hyb"), samples, escape,
                                    1000, Some(b_cand))
    /\ s_pc' = "check"
    /\ UNCHANGED <<normVars, harnVars, param, datasets_to_run, s_runs, val_i, ds_i,
                   path, agg1, prepares, all_results, master_csv>>

\* "t1 is None": a test that forgets the variant
NoneInFirstOnly(t1, t2) == ~t1.some

\* None in (t1, t2)
NoneIn(t1, t2) == ~t1.some \/ ~t2.some

\* run_sweep 113-115: a mean time is missing; warn and "continue".
SkipRecord ==
    /\ s_pc = "check"
    /\ NoneIn(agg1[1], agg2[1])
    /\ ds_i' = ds_i + 1
    /\ s_pc' = "datasets"
    /\ UNCHANGED <<normVars, harnVars, param, datasets_to_run, s_runs, val_i, path,
                   agg1, agg2, calls, invocations, prepares, all_results, master_csv>>

\* (t1 - t2) / t1 and (r2 - r1) / r1 raise ZeroDivisionError
DiffDividesByZero == agg1[1].val = 0 \/ agg1[2].val = 0

\* the dict with the baseline time under both time keys
ResultRowBaselineTwice ==
    [Dataset |-> dataset_name, param |-> param, value |-> val,
     Time_Original |-> agg1[1], Time_Hybrid |-> agg1[1],
     Ratio_Original |-> agg1[2], Ratio_Hybrid |-> agg2[2]]

\* the dict appended at 123-127
ResultRow ==
    [Dataset |-> dataset_name, param |-> param, value |-> val,
     Time_Original |-> agg1[1], Time_Hybrid |-> agg2[1],
     Ratio_Original |-> agg1[2], Ratio_Hybrid |-> agg2[2]]

\* run_sweep 117-127: the differences are computed and the record appended.
AppendRecord ==
    /\ s_pc = "check"
    /\ ~NoneIn(agg1[1], agg2[1])
    /\ ~DiffDividesByZero
    /\ all_results' = Append(all_results, ResultRow)
    /\ ds_i' = ds_i + 1
    /\ s_pc' = "datasets"
    /\ UNCHANGED <<normVars, harnVars, param, datasets_to_run, s_runs, val_i, path,
                   agg1, agg2, calls, invocations, prepares, master_csv>>

\* run_sweep 118-119: a baseline mean of 0 makes the division raise; nothing
\* in run_sweep or main catches it.
DiffRaises ==
    /\ s_pc = "check"
    /\ ~NoneIn(agg1[1], agg2[1])
    /\ DiffDividesByZero
    /\ s_pc' = "raised"
    /\ UNCHANGED <<normVars, harnVars, param, datasets_to_run, s_runs, val_i, ds_i,
                   path, agg1, agg2, calls, invocations, prepares, all_results, master_csv>>

\* run_sweep 92, 82: the inner loop is over, back to the outer loop.
EndDatasets ==
    /\ s_pc = "datasets"
    /\ ds_i > Len(datasets_to_run)
    /\ val_i' = val_i + 1
    /\ s_pc' = "values"
    /\ UNCHANGED <<normVars, harnVars, param, datasets_to_run, s_runs, ds_i, path,
                   agg1, agg2, calls, invocations, prepares, all_results, master_csv>>

\* run_sweep 129-139: the value list is over; the records, if any, are saved.
EndSweep ==
    /\ s_pc = "values"
    /\ val_i > Len(Values(param))
    /\ master_csv' = IF all_results # <<>> THEN File(all_results) ELSE master_csv
    /\ s_pc' = "done"
    /\ UNCHANGED <<normVars, harnVars, param, datasets_to_run, s_runs, val_i, ds_i,
                   path, agg1, agg2, calls, invocations, prepares, all_results>>

SweepNext ==
    \/ NextValue
    \/ PrepareOk
    \/ PrepareFails
    \/ PrepareRaises
    \/ RunOriginal
    \/ RunHybrid
    \/ SkipRecord
    \/ AppendRecord
    \/ DiffRaises
    \/ EndDatasets
    \/ EndSweep

\* the sweep controller at rest, for the behaviours of the other parts
SweepIdle ==
    /\ param = "samples"
    /\ datasets_to_run = <<>>
    /\ s_runs = 0
    /\ val_i = 1
    /\ ds_i = 1
    /\ s_pc = "idle"
    /\ path = NoPath
    /\ agg1 = NoneNone
    /\ agg2 = NoneNone
    /\ calls = <<>>
    /\ invocations = <<>>
    /\ prepares = <<>>
    /\ all_results = <<>>
    /\ master_csv = NoFile

\* the normalizer at rest, for the behaviours of the harness
NormIdle ==
    /\ source = <<>>
    /\ gz_path = NoFile
    /\ txt_path = NoFile
    /\ prepared_path = NoFile
    /\ n_fn = "none"
    /\ n_pc = "idle"
    /\ n_pos = 0
    /\ seen_edges = {}
    /\ n_before = NoFile
    /\ n_read = FALSE
    /\ n_wrote = FALSE
    /\ n_fault = FALSE
    /\ n_hist = <<>>

\* the harness at rest, for the behaviours of the normalizer
HarnIdle ==
    /\ runs = 0
    /\ discard_summaries = TRUE
    /\ iter = 0
    /\ h_pc = "loop"
    /\ child = [n \in 1..MaxRuns |-> NoChild]
    /\ pipe = <<>>
    /\ emitted = <<>>
    /\ log_file = NoFile
    /\ output_lines = <<>>
    /\ output = <<>>
    /\ artifact = {}
    /\ summarized = {}
    /\ deposited = {}
    /\ h_ret = NoneNone
    /\ h_outcome = "none"
    /\ times = <<>>
    /\ ratios = <<>>
    /\ averages = <<Mean(<<>>), Mean(<<>>)>>
    /\ invoked = <<>>
    /\ rets = <<>>

InitHarness == HarnInit /\ NormIdle /\ SweepIdle

SpecHarness == InitHarness /\ [][HarnNext]_vars

InitNorm == NormInit /\ HarnIdle /\ SweepIdle

SpecNorm == InitNorm /\ [][NormNext]_vars

\* The extractor taken alone: run_mosso of a single-run loop has reached line
\* 41 after its child wrote some text, left no artifact and exited with 0.
ExtractInit ==
    /\ runs = 1
    /\ discard_summaries = TRUE
    /\ iter = 0
    /\ h_pc = "extract"
    /\ child = [n \in 1..MaxRuns |->
                  IF n = 1 THEN [st |-> "exited", rc |-> 0] ELSE NoChild]
    /\ pipe = <<>>
    /\ emitted \in Texts
    /\ log_file = File(emitted)
    /\ output_lines = emitted
    /\ output = <<>>
    /\ artifact = {}
    /\ summarized = {}
    /\ deposited = {}
    /\ h_ret = NoneNone
    /\ h_outcome = "running"
    /\ times = <<>>
    /\ ratios = <<>>
    /\ averages = <<Mean(<<>>), Mean(<<>>)>>
    /\ invoked = <<RunSuffix(0)>>
    /\ rets = <<>>

ExtractNext ==
    \/ ExtractMetrics
    \/ Collect
    \/ ReturnAverages

InitExtract == ExtractInit /\ NormIdle /\ SweepIdle

SpecExtract == InitExtract /\ [][ExtractNext]_vars

InitSweep == SweepInit /\ NormIdle /\ HarnIdle

SpecSweep == InitSweep /\ [][SweepNext]_vars

\* --------------------------------------- the sweep and what surrounds it
\* the positions in which run_sweep has come to its end
Terminal == {"done", "raised", "interrupted"}

\* the arguments of the aggregator call run_sweep is about to make (108, 111)
CallArgs ==
    IF s_pc = "orig"
    THEN [jar_file |-> JAR_ORIGINAL, output_name |-> OutputName("orig"),
          samples |-> 120, escape |-> 3, interval |-> 1000, b_candidates |-> None]
    ELSE [jar_file |-> JAR_HYBRID, output_name |-> OutputName("hyb"),
          samples |-> samples, escape |-> escape, interval |-> 1000,
          b_candidates |-> Some(b_cand)]

\* run_mosso 24, 28: "for line in process.stdout" and process.wait() have no
\* timeout. The child of run k of the aggregator call never closes its output
\* or never exits: the runs before it came back, this one never does.
ChildHangs ==
    /\ s_pc \in {"orig", "hyb"}
    /\ \E k \in 1..s_runs :
          invocations' = invocations
              \o SubSeq(RunEntries(CallArgs.jar_file, CallArgs.output_name,
                                   CallArgs.samples, CallArgs.escape,
                                   CallArgs.interval, CallArgs.b_candidates), 1, k)
    /\ calls' = Append(calls, CallEntry(CallArgs.jar_file, CallArgs.output_name,
                                        CallArgs.samples, CallArgs.escape,
                                        CallArgs.interval, CallArgs.b_candidates))
    /\ s_pc' = "blocked"
    /\ UNCHANGED <<normVars, harnVars, param, datasets_to_run, s_runs, val_i, ds_i,
                   path, agg1, agg2, prepares, all_results, master_csv>>

\* The operator ends the process (KeyboardInterrupt, kill) while run_sweep is
\* anywhere before its return; run_sweep and main have no handler and no
\* finally clause, so nothing more is written.
Interrupt ==
    /\ s_pc \notin Terminal
    /\ s_pc' = "interrupted"
    /\ UNCHANGED <<normVars, harnVars, param, datasets_to_run, s_runs, val_i, ds_i,
                   path, agg1, agg2, calls, invocations, prepares, all_results,
                   master_csv>>

PipelineNext ==
    \/ SweepNext
    \/ ChildHangs
    \/ Interrupt

\* a sweep of the escape parameter (--param escape)
InitPipeline == InitSweep /\ param = "escape"

\* run_sweep is one sequential thread: whenever it has a step to take it takes
\* it. Nothing obliges a child to hang or an operator to interrupt.
SpecPipeline == InitPipeline /\ [][PipelineNext]_vars /\ WF_vars(SweepNext)

\* ------------------------------------------------- claims: the normalizer
Min(a, b) == IF a <= b THEN a ELSE b

Max(a, b) == IF a <= b THEN b ELSE a

\* the two vertex ids read back from an output line
OutU(o) == ParseInt(o[1]).val

OutV(o) == ParseInt(o[2]).val

WellFormedOutput(c) ==
    \A i \in 1..Len(c) :
        /\ OutU(c[i]) # OutV(c[i])
        /\ \A j \in 1..Len(c) :
              ( /\ Min(OutU(c[i]), OutV(c[i])) = Min(OutU(c[j]), OutV(c[j]))
                /\ Max(OutU(c[i]), OutV(c[i])) = Max(OutU(c[j]), OutV(c[j])) )
              => i = j

\* C1: whatever the input, a file the normalizer writes (finished or still
\* being written) has no line with u = v, and the canonical pair
\* (min(u,v), max(u,v)) of every line appears on exactly one line.
C1_NoSelfLoopOneLinePerEdge ==
    /\ WellFormedOutput(txt_path.content)
    /\ WellFormedOutput(prepared_path.content)

HasSelfLoop(src) ==
    \E i \in 1..Len(src) :
        /\ Len(src[i].parts) >= 2
        /\ src[i].parts[1] = src[i].parts[2]
        /\ ParseInt(src[i].parts[1]).ok

HasReversedPair(src) ==
    \E i, j \in 1..Len(src) :
        /\ i < j
        /\ src[i].parts = <<Tok1, Tok2>>
        /\ src[j].parts = <<Tok2, Tok01>>

\* C1 witness: a call returned after writing a non-empty file from an input
\* that holds a self-loop and the same edge in both directions.
C1_Witness ==
    \E k \in 1..Len(n_hist) :
        /\ n_hist[k].result = "returned"
        /\ n_hist[k].wrote
        /\ n_hist[k].after.content # <<>>
        /\ HasSelfLoop(source)
        /\ HasReversedPair(source)

\* The lines the specification asks for, stated line by line: line i of the
\* input yields an output line iff it is no comment, has two integer tokens
\* that differ, and no earlier such line names the same unordered pair.
IsEdgeLine(l) ==
    /\ ~StartsWithHash(l)
    /\ Len(l.parts) >= 2
    /\ ParseInt(l.parts[1]).ok
    /\ ParseInt(l.parts[2]).ok
    /\ ParseInt(l.parts[1]).val # ParseInt(l.parts[2]).val

Pair(l) == {ParseInt(l.parts[1]).val, ParseInt(l.parts[2]).val}

FirstOccurrence(src, i) ==
    /\ IsEdgeLine(src[i])
    /\ \A j \in 1..(i - 1) : IsEdgeLine(src[j]) => Pair(src[j]) # Pair(src[i])

ExpectedOutput(src) ==
    LET idx == SelectSeq([i \in 1..Len(src) |-> i],
                         LAMBDA i : FirstOccurrence(src, i))
    IN  [k \in 1..Len(idx) |->
            <<IntToStr(ParseInt(src[idx[k]].parts[1]).val),
              IntToStr(ParseInt(src[idx[k]].parts[2]).val),
              <<"1">>>>]

\* C2: the output is exactly, in source order, one line u<TAB>v<TAB>1 for the
\* first occurrence of each undirected edge, in that occurrence's (u, v)
\* order; comments, short lines, non-integer lines and self-loops add no line
\* and raise nothing (a call only raises on an injected I/O fault).
C2_FirstOccurrencesInOrder ==
    /\ LET expected == ExpectedOutput(source) IN
       \A k \in 1..Len(n_hist) :
          /\ (n_hist[k].result = "returned" /\ n_hist[k].wrote)
                => n_hist[k].after.content = expected
          /\ n_hist[k].result = "raised" => n_hist[k].fault
    /\ n_pc = "loop"
          => Target(n_fn).content = ExpectedOutput(SubSeq(source, 1, n_pos - 1))

\* C2 witness: a finished pass over "2 01", "1 2", "1 3 x": the first line is
\* written as 2<TAB>1<TAB>1, the second is its duplicate, the third follows.
C2_Witness ==
    \E k \in 1..Len(n_hist) :
        /\ n_hist[k].result = "returned"
        /\ n_hist[k].wrote
        /\ Len(source) = MaxLines
        /\ source[1].parts = <<Tok2, Tok01>>
        /\ source[2].parts = <<Tok1, Tok2>>
        /\ source[3].parts = <<Tok1, Tok3, TokX>>
        /\ n_hist[k].after.content = << <<Tok2, Tok1, Tok1>>, <<Tok1, Tok3, Tok1>> >>

\* C3: two calls of the same entry point that both return leave the target
\* with the same content and return the same path.
C3_Idempotent ==
    \A j, k \in 1..Len(n_hist) :
        ( /\ j < k
          /\ n_hist[j].fn = n_hist[k].fn
          /\ n_hist[j].result = "returned"
          /\ n_hist[k].result = "returned" )
        => /\ n_hist[k].after = n_hist[j].after
           /\ n_hist[k].ret = n_hist[j].ret

\* C3 witness: the rewriting entry point has returned twice on an input that
\* yields output.
C3_Witness ==
    \E j, k \in 1..Len(n_hist) :
        /\ j < k
        /\ n_hist[j].fn = "prepare_local_dataset"
        /\ n_hist[k].fn = "prepare_local_dataset"
        /\ n_hist[j].result = "returned"
        /\ n_hist[k].result = "returned"
        /\ n_hist[k].wrote
        /\ n_hist[k].after.content # <<>>

\* C4 as stated: whenever the output path exists on entry, either entry point
\* returns it without reading the source and without touching the file.
C4_Original_EveryEntryPointMemoizes ==
    \A k \in 1..Len(n_hist) :
        n_hist[k].before.exists
        => /\ n_hist[k].result = "returned"
           /\ n_hist[k].ret = IF n_hist[k].fn = "download_and_prepare_dataset"
                                 THEN "txt_path" ELSE "prepared_path"
           /\ ~n_hist[k].read
           /\ ~n_hist[k].wrote
           /\ n_hist[k].after = n_hist[k].before

\* C4 amended: when its output path exists, download_and_prepare_dataset
\* returns that path without reading the source and without modifying the
\* file; prepare_local_dataset has no existence check, it reopens the source
\* and truncates and rewrites its output on every call.
C4_OnlyDownloadMemoizes ==
    /\ \A k \in 1..Len(n_hist) :
          n_hist[k].before.exists
          => IF n_hist[k].fn = "download_and_prepare_dataset"
                THEN /\ n_hist[k].result = "returned"
                     /\ n_hist[k].ret = "txt_path"
                     /\ ~n_hist[k].read
                     /\ ~n_hist[k].wrote
                     /\ n_hist[k].after = n_hist[k].before
                ELSE n_hist[k].result = "returned"
                     => /\ n_hist[k].read
                        /\ n_hist[k].wrote
                        /\ n_hist[k].after.content = ExpectedOutput(source)
    /\ (n_fn = "download_and_prepare_dataset" /\ n_pc # "idle" /\ n_before.exists)
          => txt_path = n_before

\* C4 witness: download_and_prepare_dataset returned an existing file that an
\* earlier interrupted pass left incomplete, so a second pass would change it.
C4_Witness ==
    \E k \in 1..Len(n_hist) :
        /\ n_hist[k].fn = "download_and_prepare_dataset"
        /\ n_hist[k].before.exists
        /\ n_hist[k].result = "returned"
        /\ n_hist[k].before.content # ExpectedOutput(source)

\* C5 as stated: after an I/O fault (source cannot be opened, error while
\* streaming) the output the call opened does not exist, the call returns no
\* path and raises nothing, and no later call returns a partial output as if
\* it were normalized.
C5_FaultCleansUpAndReturnsNone ==
    /\ \A k \in 1..Len(n_hist) :
          n_hist[k].fault
          => /\ n_hist[k].result = "returned"
             /\ n_hist[k].ret = "None"
             /\ n_hist[k].wrote => ~n_hist[k].after.exists
    /\ \A k \in 1..Len(n_hist) :
          (n_hist[k].result = "returned" /\ n_hist[k].ret # "None")
          => n_hist[k].after.content = ExpectedOutput(source)

\* ---------------------------------------------------- claims: the harness
Running == {n \in 1..MaxRuns : child[n].st = "running"}

\* C6 as stated: at most one child process is in flight, and a child is only
\* spawned after every earlier child has exited and its artifact is gone from
\* output/<output_name>.
C6_AtMostOneChildInFlight ==
    /\ Cardinality(Running) <= 1
    /\ \A n, m \in 1..MaxRuns :
          (n < m /\ child[m].st # "unborn")
          => child[n].st # "running" /\ n \notin artifact

HasBothPatterns(text) ==
    /\ \E k \in 1..Len(text) : TimeMatches(text[k]) /\ ParseFloat(text[k].num).ok
    /\ \E k \in 1..Len(text) : RatioMatches(text[k]) /\ ParseFloat(text[k].num).ok

\* C7: when the child exits with a non-zero status, run_mosso returns
\* (None, None) whatever the captured output holds, and the step that returns
\* leaves output/<output_name> and the summarized directory as they are.
C7_NonZeroExitReturnsNoneAndKeepsArtifact ==
    [][ ( /\ h_pc = "wait"
          /\ child[cur].st = "exited"
          /\ child[cur].rc # 0
          /\ h_pc' # h_pc )
        => /\ h_pc' = "returned"
           /\ h_ret' = NoneNone
           /\ artifact' = artifact
           /\ summarized' = summarized ]_vars

\* C7 witness: a run returned after a non-zero exit, its captured output has
\* both metric lines and its artifact is still at output/<output_name>.
C7_Witness ==
    /\ h_pc = "returned"
    /\ h_outcome = "nonzero"
    /\ child[cur].rc # 0
    /\ HasBothPatterns(output_lines)
    /\ cur \in artifact
    /\ h_ret = NoneNone

\* C8 as stated: after any harness run nothing is left at
\* output/<output_name>, and without discard an artifact the child wrote is at
\* SUMMARIZED_DIR/<output_name>.
C8_Original_AfterAnyRun ==
    h_pc = "returned"
    => /\ cur \notin artifact
       /\ (~discard_summaries /\ cur \in deposited) => cur \in summarized

\* C8 amended: after a harness run whose child exited with status 0 nothing is
\* left at output/<output_name>; with discard nothing is in SUMMARIZED_DIR
\* either, without discard the artifact (if the child wrote one) is only at
\* SUMMARIZED_DIR/<output_name>. A run that ends otherwise (non-zero exit,
\* spawn or log-open failure) has not touched output/<output_name>: what the
\* child wrote there stays there.
C8_ArtifactReconciledAfterZeroExit ==
    h_pc = "returned"
    => IF h_outcome \in {"ok", "float_failed"}
          THEN /\ cur \notin artifact
               /\ discard_summaries => cur \notin summarized
               /\ ~discard_summaries => (cur \in summarized <=> cur \in deposited)
          ELSE /\ cur \in artifact <=> cur \in deposited
               /\ cur \notin summarized

\* C8 witness: a run without discard returned after a zero exit and its
\* artifact has been relocated.
C8_Witness ==
    /\ h_pc = "returned"
    /\ h_outcome = "ok"
    /\ ~discard_summaries
    /\ cur \in deposited
    /\ cur \in summarized
    /\ cur \notin artifact

\* C9: when Popen or the open of the log file fails, run_mosso returns
\* (None, None); no exception ever leaves run_mosso.
C9_SpawnOrLogFailureReturnsNone ==
    /\ h_pc # "raised"
    /\ (h_pc = "returned" /\ h_outcome \in {"spawn_failed", "log_open_failed"})
          => h_ret = NoneNone

\* C9 witness: the second invocation returned from a failure to open its log
\* file.
C9_Witness ==
    /\ h_pc = "returned"
    /\ h_outcome = "log_open_failed"
    /\ iter = 1
    /\ h_ret = NoneNone

\* C10: while streaming, the log file and the buffer hold the same lines, in
\* the order the child wrote them, and together with the unread pipe they are
\* everything the child wrote; the harness only waits for the exit once every
\* line is consumed; the text handed to the extractor is the log content.
C10_LogAndBufferFollowTheStream ==
    /\ h_pc = "stream"
          => /\ log_file.content = output_lines
             /\ output_lines \o pipe = emitted
    /\ h_pc \in {"wait", "reconcile", "extract"}
          => /\ pipe = <<>>
             /\ log_file.content = emitted
             /\ output_lines = emitted
    /\ (h_pc = "returned" /\ h_outcome \in {"ok", "float_failed", "nonzero"})
          => /\ log_file.content = emitted
             /\ output_lines = emitted
    /\ (h_pc = "returned" /\ h_outcome \in {"ok", "float_failed"})
          => output = log_file.content

\* C10 witness: a run returned after the child wrote MaxOut lines, the first
\* two of them different, and the extractor got them in that order.
C10_Witness ==
    /\ h_pc = "returned"
    /\ h_outcome = "ok"
    /\ Len(emitted) = MaxOut
    /\ emitted[1] # emitted[2]
    /\ output = emitted
    /\ log_file.content = emitted

\* -------------------------------------------------- claims: the extractor
\* the value float() gives the digits-and-dots token of a line
NumOf(line) == ParseFloat(line.num).val

\* C11: when the captured text has several matches of the time pattern or of
\* the ratio pattern, the value returned for a pattern is that of the earliest
\* line matching it, whatever later matching lines say.
C11_FirstMatchWins ==
    (h_pc = "returned" /\ h_outcome = "ok")
    => /\ \A k \in 1..Len(output) :
             ( /\ TimeMatches(output[k])
               /\ \A j \in 1..(k - 1) : ~TimeMatches(output[j]) )
             => h_ret[1] = Some(NumOf(output[k]))
       /\ \A k \in 1..Len(output) :
             ( /\ RatioMatches(output[k])
               /\ \A j \in 1..(k - 1) : ~RatioMatches(output[j]) )
             => h_ret[2] = Some(NumOf(output[k]))

\* C11 witness: the text holds two time lines and two ratio lines with
\* different values; the pair returned is that of the earlier ones.
C11_Witness ==
    /\ h_pc = "returned"
    /\ h_outcome = "ok"
    /\ output = <<TimeLine2, RatioLineLower, TimeLine, RatioLine>>
    /\ h_ret = <<Some(2000), Some(250)>>

\* the ratio label in the letter cases the child lines use
RatioLabels ==
    {"Expected Compression Ratio", "Expected compression ratio",
     "EXPECTED COMPRESSION RATIO", "expected compression ratio"}

IsTimeText(l) == l.label = "Execution time" /\ l.unit = "s" /\ IsNumRun(l.num)

IsRatioText(l) == l.label \in RatioLabels /\ IsNumRun(l.num)

\* C12: a text whose only time line is "Execution time: <X>s" and whose only
\* ratio line is "Expected Compression Ratio: <Y>" in any letter case, X and Y
\* numbers, gives (X, Y); a text with no line labelled exactly
\* "Execution time" (such as "execution time: 1.0s") gives an absent time; a
\* text with neither pattern gives (absent, absent) as a normal return.
C12_ExtractorRoundTrip ==
    (h_pc = "returned" /\ h_outcome \in {"ok", "float_failed"})
    => /\ \A a, b \in 1..Len(output) :
             ( /\ IsTimeText(output[a])
               /\ ParseFloat(output[a].num).ok
               /\ \A j \in 1..Len(output) : IsTimeText(output[j]) => j = a
               /\ IsRatioText(output[b])
               /\ ParseFloat(output[b].num).ok
               /\ \A j \in 1..Len(output) : IsRatioText(output[j]) => j = b )
             => h_ret = <<Some(NumOf(output[a])), Some(NumOf(output[b]))>>
       /\ (\A j \in 1..Len(output) : ~IsTimeText(output[j])) => ~h_ret[1].some
       /\ ( /\ \A j \in 1..Len(output) : ~IsTimeText(output[j])
            /\ \A j \in 1..Len(output) : ~IsRatioText(output[j]) )
          => h_ret = NoneNone /\ h_outcome = "ok"

\* C12 witness: "execution time: 1.0s", "Execution time: 2s" and
\* "Expected compression ratio: 0.25" give (2, 0.25).
C12_Witness ==
    /\ h_pc = "returned"
    /\ output = <<LowerTimeLine, TimeLine2, RatioLineLower>>
    /\ h_ret = <<Some(2000), Some(250)>>

\* C13 as stated: after a zero exit each metric is present exactly when the
\* first match of its own pattern carries a number, whatever happens to the
\* other metric (no match, or a matched token such as "1.2.3" that is no
\* number); both absent is a normal return.
C13_MetricsExtractedIndependently ==
    (h_pc = "returned" /\ h_outcome \in {"ok", "float_failed"})
    => /\ h_ret[1].some
             <=> \E k \in 1..Len(output) :
                    /\ IsTimeText(output[k])
                    /\ \A j \in 1..(k - 1) : ~IsTimeText(output[j])
                    /\ ParseFloat(output[k].num).ok
       /\ h_ret[2].some
             <=> \E k \in 1..Len(output) :
                    /\ IsRatioText(output[k])
                    /\ \A j \in 1..(k - 1) : ~IsRatioText(output[j])
                    /\ ParseFloat(output[k].num).ok

\* ------------------------------------------------- claims: the aggregator
\* the parent is inside a run_mosso call
InCall == h_pc \notin {"loop", "done"}

\* C14: run_multiple_mosso with repeat count N makes exactly N run_mosso
\* calls, the k-th with suffix _run<k>; a call starts only when every earlier
\* call has returned; all N are made whatever the earlier calls returned.
C14_ExactlyNSequentialRuns ==
    /\ Len(invoked) <= runs
    /\ \A k \in 1..Len(invoked) : invoked[k] = k
    /\ Len(invoked) = Len(rets) + (IF InCall THEN 1 ELSE 0)
    /\ h_pc = "done" => Len(invoked) = runs /\ Len(rets) = runs

\* C14 witness: N = MaxRuns, the loop is over, the first call had returned
\* (None, None) and the last one both metrics.
C14_Witness ==
    /\ h_pc = "done"
    /\ runs = MaxRuns
    /\ Len(invoked) = MaxRuns
    /\ rets[1] = NoneNone
    /\ rets[MaxRuns][1].some
    /\ rets[MaxRuns][2].some

RECURSIVE Total(_)
Total(xs) ==
    IF xs = <<>> THEN 0 ELSE Total(SubSeq(xs, 1, Len(xs) - 1)) + xs[Len(xs)]

\* the runs so far that returned both metrics, in run order
Complete == SelectSeq(rets, LAMBDA p : p[1].some /\ p[2].some)

C16_NoSamplesAbsentMeans ==
    /\ h_pc # "raised"
    /\ averages[1].den > 0
    /\ averages[2].den > 0
    /\ h_pc = "done"
          => /\ averages[1].some <=> averages[2].some
             /\ averages[1].some <=> times # <<>>
             /\ times = <<>> <=> ratios = <<>>
             /\ Complete = <<>>
                   => /\ ~averages[1].some
                      /\ ~averages[2].some
                      /\ times = <<>>
                      /\ ratios = <<>>

\* C16 witness: MaxRuns runs, one failed and one returned a single metric;
\* the means are absent.
C16_Witness ==
    /\ h_pc = "done"
    /\ runs = MaxRuns
    /\ \E k \in 1..Len(rets) : rets[k] = NoneNone
    /\ \E k \in 1..Len(rets) : rets[k][1].some # rets[k][2].some
    /\ ~averages[1].some
    /\ times = <<>>

\* ------------------------------------------- claims: the sweep controller
\* C17: every variant call runs with the swept parameter at the sweep value of
\* its combination and the other two of samples, escape, b at 120, 3, 5; every
\* baseline call runs with samples 120, escape 3, interval 1000 and no
\* candidate count; the two come in pairs, baseline first, for the same
\* dataset and value, and the values are those of the configured list.
C17_SweptParameterAndDefaults ==
    \A k \in 1..Len(calls) :
        LET c == calls[k]
            v == c.output_name.val
        IN  /\ \E a \in 1..Len(SWEEP_CONFIG[param].values) :
                  SWEEP_CONFIG[param].values[a] = v
            /\ c.output_name.param = param
            /\ c.interval = 1000
            /\ (k % 2 = 1) <=> c.jar_file = JAR_ORIGINAL
            /\ (k % 2 = 0) <=> c.jar_file = JAR_HYBRID
            /\ c.jar_file = JAR_ORIGINAL
                  => /\ c.samples = 120
                     /\ c.escape = 3
                     /\ c.b_candidates = None
                     /\ c.output_name.prefix = "orig"
            /\ c.jar_file = JAR_HYBRID
                  => /\ c.samples = (IF param = "samples" THEN v ELSE 120)
                     /\ c.escape = (IF param = "escape" THEN v ELSE 3)
                     /\ c.b_candidates = Some(IF param = "b" THEN v ELSE 5)
                     /\ c.output_name.prefix = "hyb"
                     /\ c.output_name.dataset = calls[k - 1].output_name.dataset
                     /\ c.output_name.val = calls[k - 1].output_name.val
                     /\ c.dataset_path = calls[k - 1].dataset_path

\* C17 witness: a sweep of escape at the value 1: the variant ran with escape
\* 1, samples 120 and 5 candidates, right after the baseline with escape 3.
C17_Witness ==
    \E k \in 2..Len(calls) :
        /\ param = "escape"
        /\ calls[k].jar_file = JAR_HYBRID
        /\ calls[k].escape = 1
        /\ calls[k].samples = 120
        /\ calls[k].b_candidates = Some(5)
        /\ calls[k - 1].jar_file = JAR_ORIGINAL
        /\ calls[k - 1].escape = 3

\* what the child is handed: the command after "java -cp <classpath> mosso.Run"
ChildArgs(e) == SubSeq(e.cmd, 5, Len(e.cmd))

\* C18: every run_mosso call hands the child dataset_path, output_name,
\* "mosso", escape, samples, interval in this order; a seventh and last
\* argument, the candidate count, is there only for the variant executable
\* (which always gets it in a sweep), never for the baseline.
C18_FixedArgumentOrder ==
    \A k \in 1..Len(invocations) :
        LET e == invocations[k]
            a == ChildArgs(e)
        IN  /\ Len(a) \in {6, 7}
            /\ a[1] = e.dataset_path
            /\ a[2] = e.output_name
            /\ a[3] = "mosso"
            /\ ParseInt(a[4]) = [ok |-> TRUE, val |-> e.escape]
            /\ ParseInt(a[5]) = [ok |-> TRUE, val |-> e.samples]
            /\ ParseInt(a[6]) = [ok |-> TRUE, val |-> e.interval]
            /\ Len(a) = 7 <=> e.jar_file = JAR_HYBRID
            /\ Len(a) = 6 <=> e.jar_file = JAR_ORIGINAL
            /\ Len(a) = 7
                  => /\ e.b_candidates.some
                     /\ ParseInt(a[7]) = [ok |-> TRUE, val |-> e.b_candidates.val]

\* C18 witness: a variant invocation with seven arguments whose escape and
\* sample count differ, after a baseline invocation with six.
C18_Witness ==
    \E j, k \in 1..Len(invocations) :
        /\ j < k
        /\ invocations[j].jar_file = JAR_ORIGINAL
        /\ Len(ChildArgs(invocations[j])) = 6
        /\ invocations[k].jar_file = JAR_HYBRID
        /\ Len(ChildArgs(invocations[k])) = 7
        /\ invocations[k].samples = 10
        /\ invocations[k].escape = 3
        /\ ChildArgs(invocations[k])[4] = <<"3">>
        /\ ChildArgs(invocations[k])[5] = <<"1", "0">>

OneDataset == Len(datasets_to_run) = 1

\* C19 as stated: a sweep over two values and one dataset, prepared at both
\* values, ends with exactly 2 records, one per value, with the same dataset
\* name and the same baseline result.
C19_Original_ExactlyTwoRecords ==
    (s_pc = "done" /\ OneDataset /\ Len(Values(param)) = 2 /\ Len(calls) = 4)
    => /\ Len(all_results) = 2
       /\ all_results[1].Dataset = all_results[2].Dataset
       /\ all_results[1].value = Values(param)[1]
       /\ all_results[2].value = Values(param)[2]
       /\ all_results[1].Time_Original = all_results[2].Time_Original
       /\ all_results[1].Ratio_Original = all_results[2].Ratio_Original

C19_Records ==
    OneDataset
    => /\ Len(all_results) <= Len(Values(param))
       /\ 2 * Len(all_results) <= Len(calls)
       /\ \A k \in 1..Len(all_results) :
             /\ all_results[k].Dataset = DatasetName(datasets_to_run[1].filename)
             /\ all_results[k].param = param
             /\ \E a \in 1..Len(Values(param)) : all_results[k].value = Values(param)[a]
       /\ \A j, k \in 1..Len(all_results) :
             j < k => all_results[j].value < all_results[k].value

C19_Append ==
    all_results' # all_results
    => /\ s_pc = "check"
       /\ all_results' =
             Append(all_results,
                    [Dataset |-> DatasetName(datasets_to_run[ds_i].filename),
                     param |-> param,
                     value |-> Values(param)[val_i],
                     Time_Original |-> agg1[1], Time_Hybrid |-> agg2[1],
                     Ratio_Original |-> agg1[2], Ratio_Hybrid |-> agg2[2]])

\* C19 amended: a sweep over one dataset has at most one record per value, in
\* value order (so at most 2 for [v1, v2]), and never more records than
\* prepared combinations; every record carries the name of that dataset, its
\* own value and the results the baseline call and the variant call of its own
\* combination returned.
C19_AtMostOneRecordPerValue == []C19_Records /\ [][C19_Append]_vars

\* C19 witness: a sweep over one dataset ended with two records whose baseline
\* times differ.
C19_Witness ==
    /\ s_pc = "done"
    /\ OneDataset
    /\ Len(all_results) = 2
    /\ all_results[1].Dataset = all_results[2].Dataset
    /\ all_results[1].value # all_results[2].value
    /\ all_results[1].Time_Original # all_results[2].Time_Original

\* C20 as stated: a finished sweep has one record for every (dataset, value)
\* whose dataset was prepared, absent means included.
C20_Original_AbsentMeansRecorded ==
    s_pc = "done" => 2 * Len(all_results) = Len(calls)

MeanMissing == ~agg1[1].some \/ ~agg2[1].some

C20_RecordsComplete ==
    /\ 2 * Len(all_results) <= Len(calls)
    /\ \A k \in 1..Len(all_results) :
          /\ all_results[k].Time_Original.some
          /\ all_results[k].Time_Hybrid.some
          /\ all_results[k].Ratio_Original.some
          /\ all_results[k].Ratio_Hybrid.some

C20_Skip ==
    (s_pc = "check" /\ MeanMissing /\ s_pc' # s_pc)
    => /\ all_results' = all_results
       /\ s_pc' = "datasets"
       /\ ds_i' = ds_i + 1
       /\ val_i' = val_i

\* C20 amended: when the baseline or the variant mean time of a combination is
\* absent, the sweep appends no record for it and goes on with the next
\* dataset; every record holds four present means, and there are never more
\* records than prepared combinations.
C20_AbsentMeansSkipped == []C20_RecordsComplete /\ [][C20_Skip]_vars

\* C20 witness: the first combination was skipped because only the variant
\* mean was absent; the sweep is at the next dataset with no record.
C20_Witness ==
    /\ s_pc = "datasets"
    /\ ds_i = 2
    /\ Len(calls) = 2
    /\ agg1[1].some
    /\ ~agg2[1].some
    /\ all_results = <<>>

C22_NoOutcomeEscapes ==
    [][(s_pc \in {"orig", "hyb", "check"})
          => /\ s_pc' \in {"hyb", "check", "datasets"}
             /\ (s_pc = "orig" => s_pc' = "hyb" /\ Len(calls') = Len(calls) + 1)
             /\ (s_pc = "hyb" => s_pc' = "check" /\ Len(calls') = Len(calls) + 1)
             /\ (s_pc = "check" => s_pc' = "datasets" /\ ds_i' = ds_i + 1)]_vars

\* a record goes to the end of all_results, from line 123, once the last
\* 2 * runs run_mosso calls made were those of the baseline and then of the
\* variant of the combination in hand; the records before it stay as they are
C23_Append ==
    all_results' # all_results
    => /\ s_pc = "check"
       /\ Len(all_results') = Len(all_results) + 1
       /\ SubSeq(all_results', 1, Len(all_results)) = all_results
       /\ all_results'[Len(all_results')].Dataset = dataset_name
       /\ all_results'[Len(all_results')].value = val
       /\ Len(invocations) >= 2 * s_runs
       /\ \A k \in 1..s_runs :
             /\ invocations[Len(invocations) - 2 * s_runs + k].output_name
                   = RunName(OutputName("orig"), k - 1)
             /\ invocations[Len(invocations) - s_runs + k].output_name
                   = RunName(OutputName("hyb"), k - 1)

\* once run_sweep was interrupted, the result table on disk holds every
\* record appended before the interruption
C23_Persisted ==
    (s_pc = "interrupted" /\ all_results # <<>>)
    => /\ master_csv.exists
       /\ Len(master_csv.content) >= Len(all_results)
       /\ SubSeq(master_csv.content, 1, Len(all_results)) = all_results

\* C23: a record is appended only after all baseline runs and all variant
\* runs of its combination, and is never changed or removed afterwards; after
\* an interruption at any point the persisted results hold every record of a
\* completed combination.
C23_RecordsFinalAndPersisted == [][C23_Append]_vars /\ []C23_Persisted

\* C24 as stated: no dataset is prepared twice in a sweep, and every
\* preparation is made before the first run_mosso call of the sweep.
C24_Original_OncePerDatasetBeforeAnyRun ==
    /\ \A j, k \in 1..Len(prepares) :
          j # k => prepares[j].dataset # prepares[k].dataset
    /\ \A k \in 1..Len(prepares) : prepares[k].before = 0

\* the (value, dataset) pairs the two loops have reached so far
Reached ==
    (val_i - 1) * Len(datasets_to_run)
    + (CASE s_pc = "values" -> 0
         [] s_pc = "done" -> 0
         [] s_pc = "datasets" -> ds_i - 1
         [] OTHER -> ds_i)

\* the pair the k-th preparation is made for, value-major
ReachedPair(k) ==
    [val |-> Values(param)[((k - 1) \div Len(datasets_to_run)) + 1],
     dataset |-> DatasetName(
                    datasets_to_run[((k - 1) % Len(datasets_to_run)) + 1].filename)]

\* C24 amended: the preparation entry point is called once for every
\* (value, dataset) pair the loops reach, in loop order, so once per value for
\* each dataset and |values| x |datasets| times in a sweep that returns; each
\* aggregator call of a pair comes after the preparation of that pair, with
\* no run_mosso call between that preparation and the baseline call, while
\* the preparations of later pairs come after the runs of earlier pairs.
C24_PreparedPerCombination ==
    /\ Len(prepares) = Reached
    /\ \A k \in 1..Len(prepares) :
          /\ prepares[k].val = ReachedPair(k).val
          /\ prepares[k].dataset = ReachedPair(k).dataset
    /\ \A k \in 1..Len(calls) :
          \E j \in 1..Len(prepares) :
             /\ prepares[j].dataset = calls[k].output_name.dataset
             /\ prepares[j].val = calls[k].output_name.val
             /\ prepares[j].before = s_runs * (2 * ((k - 1) \div 2))
    /\ \A j, k \in 1..Len(prepares) :
          j < k => prepares[j].before <= prepares[k].before

\* C24 witness: a sweep over one dataset and two values returned after both
\* combinations ran: the dataset was prepared twice, the second time after
\* the run_mosso calls of the first value.
C24_Witness ==
    /\ s_pc = "done"
    /\ OneDataset
    /\ Len(prepares) = 2
    /\ prepares[1].dataset = prepares[2].dataset
    /\ prepares[1].val # prepares[2].val
    /\ prepares[1].before = 0
    /\ prepares[2].before = 2 * MaxRuns
    /\ Len(calls) = 4

\* |values| x |datasets| x 2 x N
MostInvocations == Len(Values(param)) * Len(datasets_to_run) * 2 * s_runs

\* run_sweep has come to its end, or waits for a child that never exits
Stopped == s_pc \in Terminal \/ s_pc = "blocked"

\* from a wait for a child that never exits nothing goes on: no further call,
\* no record, no save; only the operator can end the process
HungStays ==
    s_pc = "blocked"
    => /\ s_pc' \in {"blocked", "interrupted"}
       /\ calls' = calls
       /\ invocations' = invocations
       /\ prepares' = prepares
       /\ all_results' = all_results
       /\ master_csv' = master_csv
       /\ val_i' = val_i
       /\ ds_i' = ds_i

\* C25: run_sweep never makes more than |values| x |datasets| x 2 x N
\* run_mosso calls; unless a child never exits it comes to its end after
\* finitely many steps; and once it waits for a child that never exits it
\* stays at that invocation for ever (there is no timeout).
C25_TerminatesUnlessAChildHangs ==
    /\ [](Len(invocations) <= MostInvocations)
    /\ <>Stopped
    /\ [][HungStays]_vars

\* C25 witness: a sweep over two values and two datasets returned after every
\* combination ran: 2 x 2 x 2 x MaxRuns run_mosso calls were made.
C25_Witness ==
    /\ s_pc = "done"
    /\ Len(datasets_to_run) = 2
    /\ s_runs = MaxRuns
    /\ Len(invocations) = MostInvocations
    /\ Len(invocations) = Len(Values(param)) * 4 * MaxRuns

\* where the value of a record stands in the configured value list
ValueIndex(r) ==
    CHOOSE a \in 1..Len(Values(param)) : Values(param)[a] = r.value

\* where the dataset of a record stands in the dataset list
DatasetIndex(r) ==
    CHOOSE d \in 1..Len(datasets_to_run) :
        DatasetName(datasets_to_run[d].filename) = r.Dataset

\* C26: every record is of a configured value and a listed dataset, and the
\* records stand in value-major order: by the place of their value in the
\* configured list and, within one value, by the place of their dataset in
\* the dataset list; so no (dataset, value) pair has two records.
C26_ValueMajorOrder ==
    /\ \A k \in 1..Len(all_results) :
          /\ \E a \in 1..Len(Values(param)) :
                Values(param)[a] = all_results[k].value
          /\ \E d \in 1..Len(datasets_to_run) :
                DatasetName(datasets_to_run[d].filename) = all_results[k].Dataset
    /\ \A j, k \in 1..Len(all_results) :
          j < k
          => \/ ValueIndex(all_results[j]) < ValueIndex(all_results[k])
             \/ /\ ValueIndex(all_results[j]) = ValueIndex(all_results[k])
                /\ DatasetIndex(all_results[j]) < DatasetIndex(all_results[k])

\* C26 witness: a sweep over two datasets returned with a record for every
\* pair of the first two values: two records of the first value, then two of
\* the second, each time the first dataset before the second.
C26_Witness ==
    /\ s_pc = "done"
    /\ Len(datasets_to_run) = 2
    /\ Len(all_results) = 2 * Len(Values(param))
    /\ all_results[1].value = all_results[2].value
    /\ all_results[1].Dataset # all_results[2].Dataset
    /\ all_results[2].value # all_results[3].value
    /\ all_results[1].Dataset = all_results[3].Dataset

\* the datasets of the sweep have pairwise distinct names
DistinctNames ==
    \A j, k \in 1..Len(datasets_to_run) :
        j # k => DatasetName(datasets_to_run[j].filename)
                 # DatasetName(datasets_to_run[k].filename)

\* C27: in a sweep over datasets with pairwise distinct names no two run_mosso
\* calls are handed the same output name, so no two of them write the same
\* log file or look for their artifact at the same path.
C27_OutputNamesDistinct ==
    LET tokens == {Token(invocations[k].output_name) : k \in 1..Len(invocations)}
    IN  DistinctNames
        => /\ Cardinality(tokens) = Len(invocations)
           /\ Cardinality({LogPath(t) : t \in tokens}) = Len(invocations)
           /\ Cardinality({ArtifactPath(t) : t \in tokens}) = Len(invocations)

\* C27 witness: a sweep of escape over two datasets returned after all its
\* runs; among its run_mosso calls are orig_as-caida20071105_escape1_run1 and
\* hyb_Email-Enron_escape3_run2.
C27_Witness ==
    /\ s_pc = "done"
    /\ Len(datasets_to_run) = 2
    /\ Len(invocations) = Len(Values(param)) * 4 * MaxRuns
    /\ \E j, k \in 1..Len(invocations) :
          /\ j < k
          /\ Token(invocations[j].output_name) = "orig_as-caida20071105_escape1_run1"
          /\ Token(invocations[k].output_name) = "hyb_Email-Enron_escape3_run2"

\* ---------------------------------------------- claims: the two normalizers
\* C28: whenever download_and_prepare_dataset of scripts/utils.py has written
\* its output for a source and returned, that file is the file
\* download_and_prepare_dataset of benchmark/benchmark.py writes for the same
\* source.
C28_TwoNormalizersEquivalent ==
    \A k \in 1..Len(n_hist) :
        (/\ n_hist[k].fn = "download_and_prepare_dataset"
         /\ n_hist[k].result = "returned"
         /\ n_hist[k].wrote)
        => n_hist[k].after.content = BenchmarkOutput(source)

====
